---- MODULE Spec2Model ----
(***************************************************************************)
(* JSON form import of ikiform: JsonSchemaValidator (validation with      *)
(* path-addressed diagnostics), JsonImportService (validate, then          *)
(* transform into the internal FormSchema) and the JsonImportModal that    *)
(* drives them.                                                            *)
(*                                                                         *)
(* A JavaScript value is a record [t |-> kind, v |-> payload].  The kinds  *)
(* are "undefined", "null", "boolean", "number", "string", "array",       *)
(* "object", "function" and "text".  A "text" value is a JavaScript string *)
(* whose content is the JSON serialisation of its payload; a "string"      *)
(* value is a JavaScript string whose content is its payload, and none of  *)
(* the strings used below is a JSON document.  Numbers are integers.       *)
(***************************************************************************)
EXTENDS Integers, Sequences, FiniteSets, TLC

(***************************************************************************)
(* JavaScript values                                                       *)
(***************************************************************************)
Undef == [t |-> "undefined", v |-> 0]

Null == [t |-> "null", v |-> 0]

Bool(b) == [t |-> "boolean", v |-> b]

Num(n) == [t |-> "number", v |-> n]

Str(s) == [t |-> "string", v |-> s]

Arr(seq) == [t |-> "array", v |-> seq]

Obj(rec) == [t |-> "object", v |-> rec]

Text(val) == [t |-> "text", v |-> val]

Fun(name) == [t |-> "function", v |-> name]

\* typeof x
TypeOf(x) ==
  CASE x.t \in {"null", "array", "object"} -> "object"
    [] x.t \in {"string", "text"} -> "string"
    [] OTHER -> x.t

IsString(x) == TypeOf(x) = "string"

IsArray(x) == x.t = "array"

\* x === 's' for a string literal s
StrEq(x, s) == x.t = "string" /\ x.v = s

\* x === undefined
IsUndefined(x) == x.t = "undefined"

\* ToBoolean(x), as used by !x, x && y, x || y and if (x)
Truthy(x) ==
  CASE x.t \in {"undefined", "null"} -> FALSE
    [] x.t = "boolean" -> x.v
    [] x.t = "number" -> x.v # 0
    [] x.t = "string" -> x.v # ""
    [] OTHER -> TRUE

\* x.k throws a TypeError when x is undefined or null
CanRead(x) == x.t \notin {"undefined", "null"}

\* x.k for a property k that only a plain object can own
Get(x, k) == IF x.t = "object" /\ k \in DOMAIN x.v THEN x.v[k] ELSE Undef

\* x.length === 0
HasZeroLength(x) == x.t \in {"array", "string"} /\ Len(x.v) = 0

RECURSIVE TrimLeft(_)
TrimLeft(s) ==
  IF Len(s) > 0 /\ SubSeq(s, 1, 1) = " " THEN TrimLeft(SubSeq(s, 2, Len(s))) ELSE s

RECURSIVE TrimRight(_)
TrimRight(s) ==
  IF Len(s) > 0 /\ SubSeq(s, Len(s), Len(s)) = " "
  THEN TrimRight(SubSeq(s, 1, Len(s) - 1))
  ELSE s

\* String.prototype.trim
Trim(s) == TrimRight(TrimLeft(s))

\* x.trim() === '' for a string x
TrimIsEmpty(x) == x.t = "string" /\ Trim(x.v) = ""

\* String.prototype.includes
Includes(s, sub) ==
  \E i \in 1..(Len(s) - Len(sub) + 1) : SubSeq(s, i, i + Len(sub) - 1) = sub

\* Array.prototype.join over strings
RECURSIVE Join(_, _)
Join(seq, sep) ==
  IF Len(seq) = 0 THEN ""
  ELSE IF Len(seq) = 1 THEN seq[1]
  ELSE seq[1] \o sep \o Join(Tail(seq), sep)

\* JSON.parse(x) succeeds
ParseOk(x) == x.t = "text"

\* JSON.parse(x) for a string x holding a JSON document
JSONParse(x) == x.v

\* ToNumber(x): [nan, n]
ToNumber(x) ==
  CASE x.t = "number" -> [nan |-> FALSE, n |-> x.v]
    [] x.t = "boolean" -> [nan |-> FALSE, n |-> IF x.v THEN 1 ELSE 0]
    [] x.t = "null" -> [nan |-> FALSE, n |-> 0]
    [] x.t = "string" /\ Trim(x.v) = "" -> [nan |-> FALSE, n |-> 0]
    [] x.t = "array" /\ Len(x.v) = 0 -> [nan |-> FALSE, n |-> 0]
    [] OTHER -> [nan |-> TRUE, n |-> 0]

\* code unit order of the characters the model's strings are made of
Alphabet == " ABCDEFGHIJKLMNOPQRSTUVWXYZ[]_abcdefghijklmnopqrstuvwxyz{}"

CharCode(c) ==
  IF \E i \in 1..Len(Alphabet) : SubSeq(Alphabet, i, i) = c
  THEN CHOOSE i \in 1..Len(Alphabet) : SubSeq(Alphabet, i, i) = c
  ELSE 0

RECURSIVE StrLess(_, _)
StrLess(a, b) ==
  IF Len(b) = 0 THEN FALSE
  ELSE IF Len(a) = 0 THEN TRUE
  ELSE IF SubSeq(a, 1, 1) = SubSeq(b, 1, 1)
       THEN StrLess(SubSeq(a, 2, Len(a)), SubSeq(b, 2, Len(b)))
       ELSE CharCode(SubSeq(a, 1, 1)) < CharCode(SubSeq(b, 1, 1))

\* a < b
JsLess(a, b) ==
  IF a.t = "string" /\ b.t = "string" THEN StrLess(a.v, b.v)
  ELSE ~ToNumber(a).nan /\ ~ToNumber(b).nan /\ ToNumber(a).n < ToNumber(b).n

\* a >= b
JsGreaterEq(a, b) ==
  IF a.t = "string" /\ b.t = "string" THEN ~StrLess(a.v, b.v)
  ELSE ~ToNumber(a).nan /\ ~ToNumber(b).nan /\ ToNumber(a).n >= ToNumber(b).n

\* Number.isInteger(x)
IsInteger(x) == x.t = "number"

(***************************************************************************)
(* json-schema-validator                                                   *)
(***************************************************************************)
SUPPORTED_FIELD_TYPES ==
  [text |-> "text", short_text |-> "text", email |-> "email",
   textarea |-> "textarea", long_text |-> "textarea", number |-> "number",
   date |-> "date", time |-> "time", phone |-> "phone", file |-> "file",
   signature |-> "signature", rating |-> "rating", slider |-> "slider",
   tags |-> "tags", address |-> "address", link |-> "link",
   radio |-> "radio", select |-> "select", checkbox |-> "checkbox",
   checkboxes |-> "checkbox", multi_select |-> "select",
   section |-> "statement", statement |-> "statement", poll |-> "poll",
   scheduler |-> "scheduler", social |-> "social"]

\* Object.keys(SUPPORTED_FIELD_TYPES), in insertion order
SupportedKeys ==
  <<"text", "short_text", "email", "textarea", "long_text", "number", "date",
    "time", "phone", "file", "signature", "rating", "slider", "tags",
    "address", "link", "radio", "select", "checkbox", "checkboxes",
    "multi_select", "section", "statement", "poll", "scheduler", "social">>

\* the names an object literal inherits from Object.prototype
ObjectPrototypeKeys ==
  {"constructor", "toString", "valueOf", "hasOwnProperty", "isPrototypeOf",
   "propertyIsEnumerable", "toLocaleString", "__proto__"}

\* SUPPORTED_FIELD_TYPES[name] for a string name
LookupFieldType(name) ==
  IF name \in DOMAIN SUPPORTED_FIELD_TYPES THEN Str(SUPPORTED_FIELD_TYPES[name])
  ELSE IF name \in ObjectPrototypeKeys THEN Fun(name)
  ELSE Undef

\* the accumulators of one validator and whether the walk threw
NewValidator == [errors |-> <<>>, warnings |-> <<>>, threw |-> FALSE]

ValidationError(path, message, severity) ==
  [path |-> path, message |-> message, severity |-> severity]

addError(st, path, message, severity) ==
  IF severity = "error"
  THEN [st EXCEPT !.errors = Append(@, ValidationError(path, message, severity))]
  ELSE [st EXCEPT !.warnings = Append(@, ValidationError(path, message, severity))]

addWarning(st, path, message, severity) ==
  [st EXCEPT !.warnings = Append(@, ValidationError(path, message, severity))]

\* if (cond) this.addError(path, message, 'error')
ErrorIf(st, cond, path, message) ==
  IF cond THEN addError(st, path, message, "error") ELSE st


optionFields == {"radio", "select", "checkbox", "checkboxes", "multi_select"}

\* the body of the options.forEach callback
validateOption(st, option, index, path) ==
  LET p == path \o ".options[" \o ToString(index) \o "]" IN
  IF IsString(option)
  THEN ErrorIf(st, TrimIsEmpty(option), p, "Option cannot be empty")
  ELSE IF TypeOf(option) = "object" /\ option.t # "null"
  THEN LET s1 == ErrorIf(st,
                   ~Truthy(Get(option, "id")) \/ ~IsString(Get(option, "id")),
                   p \o ".id", "Option ID is required and must be a string")
       IN ErrorIf(s1,
                  ~Truthy(Get(option, "label")) \/ ~IsString(Get(option, "label")),
                  p \o ".label", "Option label is required and must be a string")
  ELSE addError(st, p, "Option must be a string or object with id and label", "error")

\* field.options.forEach(...), from the 0-based position index on
RECURSIVE validateOptions(_, _, _, _)
validateOptions(st, options, index, path) ==
  IF index >= Len(options) THEN st
  ELSE validateOptions(validateOption(st, options[index + 1], index, path),
                       options, index + 1, path)

\* the minSelections / maxSelections checks of checkboxes and multi_select
validateSelections(st, field, path) ==
  IF Get(field, "type").v \notin {"checkboxes", "multi_select"} THEN st
  ELSE
    LET minS == Get(field, "minSelections")
        maxS == Get(field, "maxSelections")
        s1 == ErrorIf(st,
                ~IsUndefined(minS) /\ (~IsInteger(minS) \/ minS.v < 0),
                path \o ".minSelections",
                "minSelections must be a non-negative integer")
        s2 == ErrorIf(s1,
                ~IsUndefined(maxS) /\ (~IsInteger(maxS) \/ maxS.v < 1),
                path \o ".maxSelections",
                "maxSelections must be a positive integer")
    IN ErrorIf(s2,
         ~IsUndefined(maxS) /\ ~IsUndefined(minS) /\ JsLess(maxS, minS),
         path \o ".maxSelections",
         "maxSelections cannot be less than minSelections")

\* if (optionFields.includes(fieldType)) { ... }
validateOptionField(st, field, path) ==
  LET fieldType == Get(field, "type")
      options == Get(field, "options")
  IN IF ~(fieldType.t = "string" /\ fieldType.v \in optionFields) THEN st
     ELSE validateSelections(
            IF ~(Truthy(options) /\ IsArray(options))
            THEN addError(st, path \o ".options",
                   "Field type " \o fieldType.v \o " requires an options array",
                   "error")
            ELSE IF Len(options.v) = 0
            THEN addError(st, path \o ".options",
                   "Field type " \o fieldType.v
                     \o " must have at least one option", "error")
            ELSE validateOptions(st, options.v, 0, path),
            field, path)

\* if (fieldType === 'number' || fieldType === 'slider') { ... }
validateNumberField(st, field, path) ==
  LET fieldType == Get(field, "type")
      min == Get(field, "min")
      max == Get(field, "max")
      step == Get(field, "step")
      s1 == ErrorIf(st, ~IsUndefined(min) /\ TypeOf(min) # "number",
                    path \o ".min", "min value must be a number")
      s2 == ErrorIf(s1, ~IsUndefined(max) /\ TypeOf(max) # "number",
                    path \o ".max", "max value must be a number")
      s3 == ErrorIf(s2, ~IsUndefined(step) /\ TypeOf(step) # "number",
                    path \o ".step", "step value must be a number")
  IN IF ~(fieldType.t = "string" /\ fieldType.v \in {"number", "slider"})
     THEN st
     ELSE ErrorIf(s3,
            ~IsUndefined(min) /\ ~IsUndefined(max) /\ JsGreaterEq(min, max),
            path \o ".min", "min value must be less than max value")

validateFieldValidation(st, validation, path) ==
  IF TypeOf(validation) # "object" \/ validation.t = "null"
  THEN addError(st, path, "Validation must be an object", "error")
  ELSE
    LET minLength == Get(validation, "minLength")
        maxLength == Get(validation, "maxLength")
        pattern == Get(validation, "pattern")
        s1 == ErrorIf(st,
                ~IsUndefined(minLength) /\ (~IsInteger(minLength) \/ minLength.v < 0),
                path \o ".minLength", "minLength must be a non-negative integer")
        s2 == ErrorIf(s1,
                ~IsUndefined(maxLength) /\ (~IsInteger(maxLength) \/ maxLength.v < 1),
                path \o ".maxLength", "maxLength must be a positive integer")
        s3 == ErrorIf(s2,
                ~IsUndefined(minLength) /\ ~IsUndefined(maxLength)
                  /\ JsGreaterEq(minLength, maxLength),
                path \o ".minLength", "minLength must be less than maxLength")
    IN ErrorIf(s3, Truthy(pattern) /\ ~IsString(pattern),
               path \o ".pattern", "Pattern must be a string")

\* validateSectionLabel that also warns about a label of fewer than five
\* characters
validateSectionLabelShort(st, field, path) ==
  LET fieldType == Get(field, "type")
      label == Get(field, "label")
  IN
  IF ~(fieldType.t = "string" /\ fieldType.v \in {"section", "statement"})
  THEN st
  ELSE IF ~Truthy(label)
  THEN addWarning(st, path \o ".label",
                  "Section fields should have descriptive labels", "warning")
  ELSE IF ~IsString(label)
  THEN [st EXCEPT !.threw = TRUE]
  ELSE IF Len(Trim(label.v)) < 5
  THEN addWarning(st, path \o ".label",
                  "Section fields should have descriptive labels", "warning")
  ELSE st

\* the statement/section check: label.trim() throws when label is a truthy
\* value that is not a string
validateSectionLabel(st, field, path) ==
  LET fieldType == Get(field, "type")
      label == Get(field, "label")
  IN
  IF ~(fieldType.t = "string" /\ fieldType.v \in {"section", "statement"})
  THEN st
  ELSE IF ~Truthy(label)
  THEN addWarning(st, path \o ".label",
                  "Section fields should have descriptive labels", "warning")
  ELSE IF ~IsString(label)
  THEN [st EXCEPT !.threw = TRUE]
  ELSE IF TrimIsEmpty(label)
  THEN addWarning(st, path \o ".label",
                  "Section fields should have descriptive labels", "warning")
  ELSE st

\* if (field.validation) this.validateFieldValidation(...), which an
\* exception thrown before it skips
validateFieldConfiguration(st, field, path) ==
  IF st.threw \/ ~Truthy(Get(field, "validation")) THEN st
  ELSE validateFieldValidation(st, Get(field, "validation"),
                               path \o ".validation")

validateFieldTypeSpecific(st, field, path) ==
  validateFieldConfiguration(
    validateSectionLabel(
      validateNumberField(validateOptionField(st, field, path), field, path),
      field, path),
    field, path)

\* the check of field.type
validateFieldType(st, field, path) ==
  LET type == Get(field, "type") IN
  IF ~Truthy(type) \/ ~IsString(type)
  THEN addError(st, path \o ".type",
                "Field type is required and must be a string", "error")
  ELSE IF ~Truthy(LookupFieldType(type.v))
  THEN addError(st, path \o ".type",
                "Unsupported field type: " \o type.v \o ". Supported types: "
                  \o Join(SupportedKeys, ", "), "error")
  ELSE st

validateField(st, field, path) ==
  IF ~Truthy(field) \/ TypeOf(field) # "object"
  THEN addError(st, path, "Field must be an object", "error")
  ELSE
    LET id == Get(field, "id")
        label == Get(field, "label")
        required == Get(field, "required")
        placeholder == Get(field, "placeholder")
        helpText == Get(field, "helpText")
        description == Get(field, "description")
        s1 == ErrorIf(st, ~Truthy(id) \/ ~IsString(id) \/ TrimIsEmpty(id),
                path \o ".id", "Field ID is required and must be a non-empty string")
        s2 == validateFieldType(s1, field, path)
        s3 == ErrorIf(s2, ~Truthy(label) \/ ~IsString(label) \/ TrimIsEmpty(label),
                path \o ".label",
                "Field label is required and must be a non-empty string")
        s4 == ErrorIf(s3, ~IsUndefined(required) /\ TypeOf(required) # "boolean",
                path \o ".required", "Field required must be a boolean")
        s5 == ErrorIf(s4, Truthy(placeholder) /\ ~IsString(placeholder),
                path \o ".placeholder", "Field placeholder must be a string")
        s6 == ErrorIf(s5, Truthy(helpText) /\ ~IsString(helpText),
                path \o ".helpText", "Field helpText must be a string")
        s7 == ErrorIf(s6, Truthy(description) /\ ~IsString(description),
                path \o ".description", "Field description must be a string")
    IN validateFieldTypeSpecific(s7, field, path)

\* data.fields.forEach(...), from the 0-based position index on; an
\* exception thrown by the callback ends the loop
RECURSIVE validateFields(_, _, _)
validateFields(st, fields, index) ==
  IF st.threw \/ index >= Len(fields) THEN st
  ELSE validateFields(
         validateField(st, fields[index + 1], "fields[" \o ToString(index) \o "]"),
         fields, index + 1)

\* notifications.emails.forEach(...)
RECURSIVE validateEmails(_, _, _, _)
validateEmails(st, emails, index, path) ==
  IF index >= Len(emails) THEN st
  ELSE validateEmails(
         ErrorIf(st, ~IsString(emails[index + 1]),
                 path \o ".notifications.emails[" \o ToString(index) \o "]",
                 "Email must be a string"),
         emails, index + 1, path)

validateSubmission(st, submission, path) ==
  IF TypeOf(submission) # "object" \/ submission.t = "null"
  THEN addError(st, path \o ".submission",
                "Submission settings must be an object", "error")
  ELSE
    LET redirectUrl == Get(submission, "redirectUrl")
        successMessage == Get(submission, "successMessage")
        s1 == ErrorIf(st,
                ~IsUndefined(redirectUrl) /\ redirectUrl.t # "null" /\ ~IsString(redirectUrl),
                path \o ".submission.redirectUrl",
                "Redirect URL must be a string or null")
    IN ErrorIf(s1, Truthy(successMessage) /\ ~IsString(successMessage),
               path \o ".submission.successMessage",
               "Success message must be a string")

validateNotifications(st, notifications, path) ==
  IF TypeOf(notifications) # "object" \/ notifications.t = "null"
  THEN addError(st, path \o ".notifications",
                "Notifications settings must be an object", "error")
  ELSE
    LET sendEmail == Get(notifications, "sendEmail")
        emails == Get(notifications, "emails")
        s1 == ErrorIf(st, ~IsUndefined(sendEmail) /\ TypeOf(sendEmail) # "boolean",
                path \o ".notifications.sendEmail", "sendEmail must be a boolean")
    IN IF Truthy(emails) /\ ~IsArray(emails)
       THEN addError(s1, path \o ".notifications.emails",
                     "emails must be an array", "error")
       ELSE IF Truthy(emails)
       THEN validateEmails(s1, emails.v, 0, path)
       ELSE s1

validateSettings(st, settings, path) ==
  IF TypeOf(settings) # "object" \/ settings.t = "null"
  THEN addError(st, path, "Settings must be an object", "error")
  ELSE
    LET theme == Get(settings, "theme")
        language == Get(settings, "language")
        s1 == ErrorIf(st, Truthy(theme) /\ ~IsString(theme),
                path \o ".theme", "Theme must be a string")
        s2 == ErrorIf(s1, Truthy(language) /\ ~IsString(language),
                path \o ".language", "Language must be a string")
        s3 == IF Truthy(Get(settings, "submission"))
              THEN validateSubmission(s2, Get(settings, "submission"), path)
              ELSE s2
    IN IF Truthy(Get(settings, "notifications"))
       THEN validateNotifications(s3, Get(settings, "notifications"), path)
       ELSE s3

\* if (data.settings) this.validateSettings(data.settings, 'settings'), which
\* an exception thrown before it skips
validateFormSettings(st, data) ==
  IF st.threw \/ ~Truthy(Get(data, "settings")) THEN st
  ELSE validateSettings(st, Get(data, "settings"), "settings")

\* data.title throws when data is undefined or null
validateFormSchema(st, data) ==
  IF ~CanRead(data) THEN [st EXCEPT !.threw = TRUE]
  ELSE
    LET title == Get(data, "title")
        description == Get(data, "description")
        fields == Get(data, "fields")
        s1 == ErrorIf(st, ~Truthy(title) \/ ~IsString(title) \/ TrimIsEmpty(title),
                "title", "Form title is required and must be a non-empty string")
        s2 == ErrorIf(s1, Truthy(description) /\ ~IsString(description),
                "description", "Form description must be a string")
    IN IF ~IsArray(fields)
       THEN addError(s2, "fields", "Fields must be an array", "error")
       ELSE validateFormSettings(
              validateFields(
                ErrorIf(s2, Len(fields.v) = 0,
                        "fields", "Form must have at least one field"),
                fields.v, 0),
              data)

fixableErrors ==
  {"Field required must be a boolean", "Theme must be a string",
   "Language must be a string", "Success message must be a string"}

isFixableError(error) ==
  \E fixable \in fixableErrors : Includes(error.message, fixable)

\* Array.prototype.filter with isFixableError
RECURSIVE FilterFixable(_)
FilterFixable(errors) ==
  IF Len(errors) = 0 THEN <<>>
  ELSE IF isFixableError(Head(errors))
  THEN <<Head(errors)>> \o FilterFixable(Tail(errors))
  ELSE FilterFixable(Tail(errors))

ValidationResult(isValid, errors, warnings, fixable) ==
  [isValid |-> isValid, errors |-> errors, warnings |-> warnings,
   fixableErrors |-> fixable]

\* the catch block of validate
validateCatch(st) ==
  LET s1 == addError(st, "root",
              "Invalid JSON format. Please check your JSON syntax.", "error")
  IN ValidationResult(FALSE, s1.errors, s1.warnings, <<>>)

\* validateTry that hands a string to validateFormSchema without parsing it
validateTryUnparsed(jsonData) ==
  [st |-> validateFormSchema(NewValidator, jsonData), walked |-> TRUE]

\* the try block of validate: the accumulators when it ends, whether
\* validateFormSchema was entered and whether an exception ended it
validateTry(jsonData) ==
  IF IsString(jsonData) /\ ~ParseOk(jsonData)
  THEN [st |-> [NewValidator EXCEPT !.threw = TRUE], walked |-> FALSE]
  ELSE [st |-> validateFormSchema(NewValidator,
                 IF IsString(jsonData) THEN JSONParse(jsonData) ELSE jsonData),
        walked |-> TRUE]

\* validateReturn with isValid computed from the warnings
validateReturnByWarnings(try) ==
  IF try.st.threw
  THEN [outcome |-> "returned", result |-> validateCatch(try.st),
        walked |-> try.walked]
  ELSE [outcome |-> "returned",
        result |-> ValidationResult(Len(try.st.warnings) = 0, try.st.errors,
                     try.st.warnings, FilterFixable(try.st.errors)),
        walked |-> try.walked]

\* the two return statements of validate, after the try block ended as
\* `try` says: how the call ends ("returned" or "threw"), the
\* ValidationResult it returns and whether validateFormSchema was entered
validateReturn(try) ==
  IF try.st.threw
  THEN [outcome |-> "returned", result |-> validateCatch(try.st),
        walked |-> try.walked]
  ELSE [outcome |-> "returned",
        result |-> ValidationResult(Len(try.st.errors) = 0, try.st.errors,
                     try.st.warnings, FilterFixable(try.st.errors)),
        walked |-> try.walked]

\* one call of validate
validateRun(jsonData) == validateReturn(validateTry(jsonData))

validate(jsonData) == validateRun(jsonData).result

\* validateJsonSchema: a new validator for every call
validateJsonSchema(jsonData) == validate(jsonData)


(***************************************************************************)
(* json-import-service                                                     *)
(***************************************************************************)
\* an exception in flight: [t |-> "thrown", v |-> error.message]
Thrown(message) == [t |-> "thrown", v |-> message]

IsThrown(x) == x.t = "thrown"

EmptyObject == Obj(<<>>)

\* o[k] = val on a copy of the object o
SetKey(o, k, val) == Obj((k :> val) @@ o.v)

\* if (cond) o[k] = val
SetKeyIf(o, cond, k, val) == IF cond THEN SetKey(o, k, val) ELSE o

\* createDefaultFormSchema of @/lib/forms
createDefaultFormSchema(options) ==
  Obj([blocks |-> Arr(<<>>),
       fields |-> Arr(<<>>),
       settings |-> Obj([title |-> Get(options, "title"),
                         description |-> Get(options, "description"),
                         multiStep |-> Get(options, "multiStep")]),
       logic |-> Arr(<<>>)])

\* the suffixes Date.now() and Math.random() can contribute to an id
RandomSuffixes == {"r1", "r2"}

generateUniqueId(rnd) == Str("field_" \o rnd)

generateBlockId(rnd) == Str("block_" \o rnd)

\* SUPPORTED_FIELD_TYPES[importType] || importType
mapFieldType(importType) ==
  IF importType.t = "string" /\ Truthy(LookupFieldType(importType.v))
  THEN LookupFieldType(importType.v)
  ELSE importType

\* the callback of importedOptions.map: option.label throws on null
transformOption(option) ==
  IF IsString(option) THEN option
  ELSE IF TypeOf(option) = "object"
  THEN IF option.t = "null"
       THEN Thrown("Cannot read properties of null (reading 'label')")
       ELSE IF Truthy(Get(option, "label")) THEN Get(option, "label")
       ELSE Str("Option")
  ELSE Str("Option")

\* Push that puts the element in front
PushFront(array, element) ==
  IF IsThrown(element) THEN element ELSE Arr(<<element>> \o array.v)

\* the array with one more element, or the exception met computing it
Push(array, element) ==
  IF IsThrown(element) THEN element ELSE Arr(Append(array.v, element))

\* Array.prototype.map with transformOption, with the array `done` of the
\* options mapped so far; the first exception ends it
RECURSIVE MapOptions(_, _)
MapOptions(done, options) ==
  IF IsThrown(done) \/ Len(options) = 0 THEN done
  ELSE MapOptions(Push(done, transformOption(Head(options))), Tail(options))

transformOptions(importedOptions) ==
  IF ~Truthy(importedOptions) \/ HasZeroLength(importedOptions) THEN Undef
  ELSE IF ~IsArray(importedOptions)
  THEN Thrown("importedOptions.map is not a function")
  ELSE MapOptions(Arr(<<>>), importedOptions.v)

transformValidation(importedField) ==
  LET validation == Get(importedField, "validation")
      v1 == SetKeyIf(EmptyObject, Truthy(Get(validation, "minLength")),
                     "minLength", Get(validation, "minLength"))
      v2 == SetKeyIf(v1, Truthy(Get(validation, "maxLength")),
                     "maxLength", Get(validation, "maxLength"))
      v3 == SetKeyIf(v2, Truthy(Get(validation, "min")),
                     "min", Get(validation, "min"))
      v4 == SetKeyIf(v3, Truthy(Get(validation, "max")),
                     "max", Get(validation, "max"))
      v5 == SetKeyIf(v4, Truthy(Get(validation, "pattern")),
                     "pattern", Get(validation, "pattern"))
      v6 == SetKeyIf(v5, ~IsUndefined(Get(importedField, "min")),
                     "min", Get(importedField, "min"))
      v7 == SetKeyIf(v6, ~IsUndefined(Get(importedField, "max")),
                     "max", Get(importedField, "max"))
  IN SetKeyIf(v7, Truthy(Get(importedField, "required")),
              "requiredMessage", Str("This field is required"))

\* transformTypeSettings that tests the resolved type for allowMultiple
transformTypeSettingsResolved(settings, importedField, fieldType) ==
  CASE StrEq(fieldType, "textarea") ->
         SetKeyIf(settings, Truthy(Get(importedField, "rows")),
                  "rows", Get(importedField, "rows"))
    [] (StrEq(fieldType, "number") \/ StrEq(fieldType, "slider")) ->
         LET s1 == SetKeyIf(settings, ~IsUndefined(Get(importedField, "min")),
                            "min", Get(importedField, "min"))
             s2 == SetKeyIf(s1, ~IsUndefined(Get(importedField, "max")),
                            "max", Get(importedField, "max"))
             s3 == SetKeyIf(s2, ~IsUndefined(Get(importedField, "step")),
                            "step", Get(importedField, "step"))
         IN SetKeyIf(s3,
              StrEq(fieldType, "slider")
                /\ ~IsUndefined(Get(importedField, "defaultValue")),
              "defaultValue", Get(importedField, "defaultValue"))
    [] StrEq(fieldType, "checkbox") ->
         LET s1 == SetKeyIf(settings,
                            ~IsUndefined(Get(importedField, "minSelections")),
                            "min", Get(importedField, "minSelections"))
         IN SetKeyIf(s1, ~IsUndefined(Get(importedField, "maxSelections")),
                     "max", Get(importedField, "maxSelections"))
    [] StrEq(fieldType, "select") ->
         SetKeyIf(settings, StrEq(fieldType, "select"),
                  "allowMultiple", Bool(TRUE))
    [] StrEq(fieldType, "statement") ->
         LET s1 == SetKey(settings, "statementHeading", Get(importedField, "label"))
             s2 == SetKeyIf(s1, Truthy(Get(importedField, "description")),
                            "statementDescription",
                            Get(importedField, "description"))
             s3 == SetKey(s2, "statementAlign", Str("left"))
         IN SetKey(s3, "statementSize", Str("md"))
    [] StrEq(fieldType, "rating") ->
         SetKey(SetKey(SetKey(settings, "starCount", Num(5)),
                       "icon", Str("star")), "color", Str("#fbbf24"))
    [] StrEq(fieldType, "tags") ->
         SetKey(SetKey(settings, "maxTags", Num(10)),
                "allowDuplicates", Bool(FALSE))
    [] OTHER -> settings

\* the switch (fieldType) of transformFieldSettings
transformTypeSettings(settings, importedField, fieldType) ==
  CASE StrEq(fieldType, "textarea") ->
         SetKeyIf(settings, Truthy(Get(importedField, "rows")),
                  "rows", Get(importedField, "rows"))
    [] (StrEq(fieldType, "number") \/ StrEq(fieldType, "slider")) ->
         LET s1 == SetKeyIf(settings, ~IsUndefined(Get(importedField, "min")),
                            "min", Get(importedField, "min"))
             s2 == SetKeyIf(s1, ~IsUndefined(Get(importedField, "max")),
                            "max", Get(importedField, "max"))
             s3 == SetKeyIf(s2, ~IsUndefined(Get(importedField, "step")),
                            "step", Get(importedField, "step"))
         IN SetKeyIf(s3,
              StrEq(fieldType, "slider")
                /\ ~IsUndefined(Get(importedField, "defaultValue")),
              "defaultValue", Get(importedField, "defaultValue"))
    [] StrEq(fieldType, "checkbox") ->
         LET s1 == SetKeyIf(settings,
                            ~IsUndefined(Get(importedField, "minSelections")),
                            "min", Get(importedField, "minSelections"))
         IN SetKeyIf(s1, ~IsUndefined(Get(importedField, "maxSelections")),
                     "max", Get(importedField, "maxSelections"))
    [] StrEq(fieldType, "select") ->
         SetKeyIf(settings, StrEq(Get(importedField, "type"), "multi_select"),
                  "allowMultiple", Bool(TRUE))
    [] StrEq(fieldType, "statement") ->
         LET s1 == SetKey(settings, "statementHeading", Get(importedField, "label"))
             s2 == SetKeyIf(s1, Truthy(Get(importedField, "description")),
                            "statementDescription",
                            Get(importedField, "description"))
             s3 == SetKey(s2, "statementAlign", Str("left"))
         IN SetKey(s3, "statementSize", Str("md"))
    [] StrEq(fieldType, "rating") ->
         SetKey(SetKey(SetKey(settings, "starCount", Num(5)),
                       "icon", Str("star")), "color", Str("#fbbf24"))
    [] StrEq(fieldType, "tags") ->
         SetKey(SetKey(settings, "maxTags", Num(10)),
                "allowDuplicates", Bool(FALSE))
    [] OTHER -> settings

\* transformFieldSettings that applies defaultValue after defaultChecked
transformFieldSettingsValueLast(importedField, fieldType) ==
  LET s1 == SetKeyIf(EmptyObject, Truthy(Get(importedField, "helpText")),
                     "helpText", Get(importedField, "helpText"))
      s2 == SetKeyIf(s1, ~IsUndefined(Get(importedField, "defaultChecked")),
                     "defaultValue", Get(importedField, "defaultChecked"))
      s3 == SetKeyIf(s2, ~IsUndefined(Get(importedField, "defaultValue")),
                     "defaultValue", Get(importedField, "defaultValue"))
  IN transformTypeSettings(s3, importedField, fieldType)

transformFieldSettings(importedField, fieldType) ==
  LET s1 == SetKeyIf(EmptyObject, Truthy(Get(importedField, "helpText")),
                     "helpText", Get(importedField, "helpText"))
      s2 == SetKeyIf(s1, ~IsUndefined(Get(importedField, "defaultValue")),
                     "defaultValue", Get(importedField, "defaultValue"))
      s3 == SetKeyIf(s2, ~IsUndefined(Get(importedField, "defaultChecked")),
                     "defaultValue", Get(importedField, "defaultChecked"))
  IN transformTypeSettings(s3, importedField, fieldType)

\* if (options && options.length > 0) field.options = options; return field
transformedField(field, options) ==
  IF IsThrown(options) THEN options
  ELSE IF Truthy(options) /\ Len(options.v) > 0
  THEN SetKey(field, "options", options)
  ELSE field

\* transformField that gives every field a generated id
transformFieldFreshId(importedField, rnd) ==
  LET fieldId == generateUniqueId(rnd)
      mappedType == mapFieldType(Get(importedField, "type"))
  IN transformedField(
       Obj([id |-> fieldId,
            type |-> mappedType,
            label |-> Get(importedField, "label"),
            description |-> Get(importedField, "description"),
            placeholder |-> Get(importedField, "placeholder"),
            required |-> IF Get(importedField, "required").t
                              \in {"undefined", "null"}
                         THEN Bool(FALSE)
                         ELSE Get(importedField, "required"),
            validation |-> transformValidation(importedField),
            settings |-> transformFieldSettings(importedField, mappedType)]),
       transformOptions(Get(importedField, "options")))

\* transformField: the internal field, or the exception of transformOptions
transformField(importedField, rnd) ==
  LET fieldId == IF Truthy(Get(importedField, "id"))
                 THEN Get(importedField, "id")
                 ELSE generateUniqueId(rnd)
      mappedType == mapFieldType(Get(importedField, "type"))
  IN transformedField(
       Obj([id |-> fieldId,
            type |-> mappedType,
            label |-> Get(importedField, "label"),
            description |-> Get(importedField, "description"),
            placeholder |-> Get(importedField, "placeholder"),
            required |-> IF Get(importedField, "required").t
                              \in {"undefined", "null"}
                         THEN Bool(FALSE)
                         ELSE Get(importedField, "required"),
            validation |-> transformValidation(importedField),
            settings |-> transformFieldSettings(importedField, mappedType)]),
       transformOptions(Get(importedField, "options")))

\* importedSchema.fields.map(transformField), with the array `done` of the
\* fields mapped so far; the first exception ends it
RECURSIVE MapFields(_, _, _)
MapFields(done, fields, rnd) ==
  IF IsThrown(done) \/ Len(fields) = 0 THEN done
  ELSE MapFields(Push(done, transformField(Head(fields), rnd)),
                 Tail(fields), rnd)

\* the languages written right to left
RtlLanguages == {"ar", "he", "ur", "fa"}

transformSettings(importedSettings, baseSettings) ==
  LET submission == Get(importedSettings, "submission")
      notifications == Get(importedSettings, "notifications")
      emails == Get(notifications, "emails")
      firstEmail == IF IsArray(emails) /\ Len(emails.v) > 0 THEN emails.v[1]
                    ELSE Undef
      s1 == SetKeyIf(baseSettings, Truthy(Get(importedSettings, "theme")),
              "theme",
              SetKey(IF Get(baseSettings, "theme").t = "object"
                     THEN Get(baseSettings, "theme") ELSE EmptyObject,
                     "primaryColor",
                     IF StrEq(Get(importedSettings, "theme"), "dark")
                     THEN Str("#1f2937") ELSE Str("#3b82f6")))
      s2 == SetKeyIf(s1,
              Truthy(submission) /\ Truthy(Get(submission, "successMessage")),
              "successMessage", Get(submission, "successMessage"))
      s3 == SetKeyIf(s2,
              Truthy(submission) /\ Truthy(Get(submission, "redirectUrl")),
              "redirectUrl", Get(submission, "redirectUrl"))
      s4 == SetKeyIf(s3, Truthy(notifications), "notifications",
              Obj([enabled |-> IF Get(notifications, "sendEmail").t
                                    \in {"undefined", "null"}
                               THEN Bool(FALSE)
                               ELSE Get(notifications, "sendEmail"),
                   email |-> IF Truthy(firstEmail) THEN firstEmail ELSE Str(""),
                   subject |-> Str("New form submission: "
                                     \o Get(s3, "title").v),
                   message |-> Str("A new form submission has been received.")]))
  IN SetKeyIf(s4, Truthy(Get(importedSettings, "language")), "rtl",
       Bool(Get(importedSettings, "language").t = "string"
              /\ Get(importedSettings, "language").v \in RtlLanguages))

\* the rest of createFormSchema once the fields are mapped: the FormSchema,
\* or the exception that ended the mapping
assembleFormSchema(importedSchema, baseSchema, transformedFields, rnd) ==
  IF IsThrown(transformedFields) THEN transformedFields
  ELSE
    LET mainBlock == Obj([id |-> generateBlockId(rnd),
                          title |-> Str("Main"),
                          description |-> Str(""),
                          fields |-> transformedFields,
                          settings |-> Obj([showStepNumber |-> Bool(FALSE),
                                            layout |-> Str("single"),
                                            spacing |-> Str("normal")])])
        settings == transformSettings(
                      IF Truthy(Get(importedSchema, "settings"))
                      THEN Get(importedSchema, "settings")
                      ELSE EmptyObject,
                      Get(baseSchema, "settings"))
    IN Obj([blocks |-> Arr(<<mainBlock>>),
            fields |-> transformedFields,
            settings |-> settings,
            logic |-> Get(baseSchema, "logic")])

\* createFormSchema: the FormSchema, or the exception that ended it
createFormSchema(importedSchema, rnd) ==
  LET fields == Get(importedSchema, "fields") IN
  assembleFormSchema(
    importedSchema,
    createDefaultFormSchema(
      Obj([title |-> Get(importedSchema, "title"),
           description |-> IF Truthy(Get(importedSchema, "description"))
                           THEN Get(importedSchema, "description")
                           ELSE Str(""),
           multiStep |-> Bool(FALSE)])),
    IF ~CanRead(fields)
    THEN Thrown("Cannot read properties of undefined (reading 'map')")
    ELSE IF ~IsArray(fields)
    THEN Thrown("importedSchema.fields.map is not a function")
    ELSE MapFields(Arr(<<>>), fields.v, rnd),
    rnd)

\* FormatDiagnostics that drops the path
RECURSIVE FormatMessages(_)
FormatMessages(list) ==
  IF Len(list) = 0 THEN <<>>
  ELSE <<Head(list).message>> \o FormatMessages(Tail(list))

\* errors.map(e => `${e.path}: ${e.message}`)
RECURSIVE FormatDiagnostics(_)
FormatDiagnostics(list) ==
  IF Len(list) = 0 THEN <<>>
  ELSE <<Head(list).path \o ": " \o Head(list).message>>
         \o FormatDiagnostics(Tail(list))

\* the value of `error instanceof Error ? error.message : 'Unknown error'`
ErrorMessage(thrown) == thrown.v

\* the end of the try block on a valid input: the successful result, or the
\* exception createFormSchema ended with
transformSucceeded(validationResult, formSchema) ==
  IF IsThrown(formSchema)
  THEN [threw |-> TRUE, created |-> 1, error |-> formSchema]
  ELSE [threw |-> FALSE, created |-> 1,
        result |-> [success |-> TRUE,
                    formSchema |-> formSchema,
                    errors |-> <<>>,
                    warnings |-> FormatDiagnostics(validationResult.warnings),
                    validationResult |-> validationResult]]

\* the try block after the validation
transformValidated(validationResult, jsonData, rnd) ==
  IF ~validationResult.isValid
  THEN [threw |-> FALSE, created |-> 0,
        result |-> [success |-> FALSE,
                    errors |-> FormatDiagnostics(validationResult.errors),
                    warnings |-> FormatDiagnostics(validationResult.warnings),
                    validationResult |-> validationResult]]
  ELSE transformSucceeded(validationResult, createFormSchema(jsonData, rnd))

\* the try block of transformJsonToFormSchema: the ImportTransformResult it
\* returns or the exception that ended it, and the number of calls of
\* createFormSchema it made
transformTry(jsonData, rnd) ==
  transformValidated(validateJsonSchema(jsonData), jsonData, rnd)

\* transformSettle without the catch block
transformSettleNoCatch(try) ==
  IF try.threw
  THEN [outcome |-> "rejected", created |-> try.created, error |-> try.error]
  ELSE [outcome |-> "resolved", created |-> try.created, result |-> try.result]

\* transformSettle whose catch block reports no error
transformSettleSilentCatch(try) ==
  IF try.threw
  THEN [outcome |-> "resolved", created |-> try.created,
        result |-> [success |-> FALSE, errors |-> <<>>, warnings |-> <<>>]]
  ELSE [outcome |-> "resolved", created |-> try.created, result |-> try.result]

\* how the promise of transformJsonToFormSchema settles after the try block
\* ended as `try` says ("resolved" or "rejected"), the ImportTransformResult
\* it resolves to and the number of calls of createFormSchema
transformSettle(try) ==
  IF try.threw
  THEN [outcome |-> "resolved", created |-> try.created,
        result |-> [success |-> FALSE,
                    errors |-> <<"Failed to transform JSON: "
                                   \o ErrorMessage(try.error)>>,
                    warnings |-> <<>>]]
  ELSE [outcome |-> "resolved", created |-> try.created, result |-> try.result]

\* one call of transformJsonToFormSchema
transformRun(jsonData, rnd) == transformSettle(transformTry(jsonData, rnd))

transformJsonToFormSchema(jsonData, rnd) == transformRun(jsonData, rnd).result


\* readFileAsText: the text the promise resolves to, or the Error it rejects
\* with.  A file is [readable |-> BOOLEAN, content |-> string value]
readFileAsText(file) ==
  IF ~file.readable THEN Thrown("File reading error")
  ELSE IF Truthy(file.content) THEN file.content
  ELSE Thrown("Failed to read file")

\* the SyntaxError of JSON.parse
SyntaxError == Thrown("Unexpected token in JSON")

\* one call of importFromFile
importFromFileRun(file, rnd) ==
  LET text == readFileAsText(file) IN
  IF IsThrown(text) \/ ~ParseOk(text)
  THEN [outcome |-> "resolved", created |-> 0,
        result |-> [success |-> FALSE,
                    errors |-> <<"Failed to read file: "
                                   \o ErrorMessage(IF IsThrown(text) THEN text
                                                   ELSE SyntaxError)>>,
                    warnings |-> <<>>]]
  ELSE transformRun(JSONParse(text), rnd)

importFromFile(file, rnd) == importFromFileRun(file, rnd).result


(***************************************************************************)
(* The documents the operations are applied to                             *)
(***************************************************************************)
\* a JSON object: a member is present exactly when it has a value
JsonObject(members) ==
  Obj([k \in {m \in DOMAIN members : ~IsUndefined(members[m])} |-> members[k]])

\* no more than MaxFields fields in a document
MaxFields == 2

BaseField == [id |-> Str("f1"), type |-> Str("text"), label |-> Str("Name")]

\* a field that differs from BaseField in the members of `members`
FieldWith(members) == JsonObject(members @@ BaseField)

IdValues == {Str("f1"), Str("")}

TypeValues ==
  {Undef, Str(""), Num(5), Str("bogus"), Str("constructor"),
   Str("text"), Str("short_text"), Str("number"), Str("multi_select"),
   Str("section")}

LabelValues == {Undef, Str(""), Str(" "), Str("Name"), Num(5)}

RequiredValues == {Undef, Bool(TRUE), Str("yes")}

OptionsValues ==
  {Undef, Num(5), Arr(<<>>), Arr(<<Str("A"), Str("B")>>),
   Arr(<<Str("A"), Obj([id |-> Str("x"), label |-> Str("C")])>>),
   Arr(<<Str(" "), Obj([id |-> Num(1)]), Num(3)>>),
   Arr(<<Null>>)}

NumberValues == {Undef, Num(0), Num(1), Num(5), Str("x")}

ValidationValues ==
  {Num(7),
   Obj([minLength |-> Num(0), maxLength |-> Num(5), pattern |-> Str("")]),
   Obj([minLength |-> Num(5), maxLength |-> Num(5)]),
   Obj([minLength |-> Str("x"), maxLength |-> Num(0), pattern |-> Num(1)]),
   Obj([min |-> Num(0), max |-> Num(5)])}

\* identity, type, label and required
CoreFields ==
  {FieldWith([id |-> i, type |-> t, label |-> l, required |-> r]) :
     i \in IdValues, t \in TypeValues, l \in LabelValues, r \in RequiredValues}

\* options and selection bounds, on types that require options and on others
OptionFields ==
  {FieldWith([type |-> t, options |-> o, minSelections |-> n]) :
     t \in {Str("text"), Str("radio"), Str("multi_select"), Str("checkboxes")},
     o \in OptionsValues, n \in {Undef, Num(1)}}
  \cup
  {FieldWith([type |-> t, options |-> Arr(<<Str("A")>>),
              minSelections |-> lo, maxSelections |-> hi]) :
     t \in {Str("select"), Str("multi_select")},
     lo \in NumberValues, hi \in NumberValues}

\* min, max and step
NumberFields ==
  {FieldWith([type |-> t, min |-> lo, max |-> hi, step |-> st]) :
     t \in {Str("text"), Str("number"), Str("slider")},
     lo \in NumberValues, hi \in NumberValues, st \in {Undef, Str("x")}}

\* validation, the optional texts and the default values
DetailFields ==
  {FieldWith([type |-> t, validation |-> v, required |-> r]) :
     t \in {Str("text"), Str("statement")}, v \in ValidationValues,
     r \in {Undef, Bool(FALSE)}}
  \cup
  {FieldWith([type |-> t, placeholder |-> x, helpText |-> y, description |-> z]) :
     t \in {Str("textarea"), Str("statement")},
     x \in {Undef, Num(1)}, y \in {Str("Help"), Num(1)}, z \in {Undef, Str("D"), Num(1)}}
  \cup
  {FieldWith([type |-> t, defaultValue |-> x, defaultChecked |-> y, rows |-> Num(3)]) :
     t \in {Str("text"), Str("slider"), Str("textarea"), Str("rating"), Str("tags")},
     x \in {Undef, Num(2)}, y \in {Undef, Bool(TRUE)}}

\* array elements that are not objects
NonObjectFields == {Null, Num(5), Str("f1"), Arr(<<>>)}

Fields ==
  CoreFields \cup OptionFields \cup NumberFields \cup DetailFields
    \cup NonObjectFields

\* the fields that accompany a field of Fields in a longer array
SiblingFields ==
  {FieldWith(<<>>),
   FieldWith([id |-> Str(""), type |-> Undef]),
   FieldWith([type |-> Str("section"), label |-> Str("")]),
   FieldWith([type |-> Str("section"), label |-> Num(5), required |-> Str("yes")]),
   Null}

\* the positions of the siblings of the field at position pos of n fields
SiblingPositions(n, pos) == (1..n) \ {pos}

\* the document whose defects are in its n fields: the field f at position
\* pos, among the siblings sib
FieldDocument(n, pos, f, sib) ==
  JsonObject([title |-> Str("T"),
              fields |-> Arr([k \in 1..n |-> IF k = pos THEN f ELSE sib[k]])])

TitleValues == {Undef, Str(""), Str(" "), Str("T"), Num(5)}

SettingsValues ==
  {Num(5),
   Obj([theme |-> Str("dark"), language |-> Str("ar")]),
   Obj([theme |-> Num(1), language |-> Num(1)]),
   Obj([submission |-> Str("s"), notifications |-> Str("n")]),
   Obj([submission |-> Obj([redirectUrl |-> Null, successMessage |-> Str("Thanks")]),
        notifications |-> Obj([sendEmail |-> Bool(TRUE),
                                emails |-> Arr(<<Str("a@b.c"), Str("d@e.f")>>)])]),
   Obj([submission |-> Obj([redirectUrl |-> Num(1), successMessage |-> Num(1)]),
        notifications |-> Obj([sendEmail |-> Str("yes"),
                                emails |-> Arr(<<Str("a@b.c"), Num(1)>>)])]),
   Obj([notifications |-> Obj([emails |-> Str("a@b.c")])])}

\* documents whose defects are at the root
RootDocuments ==
  {JsonObject([title |-> t, description |-> d, fields |-> f, settings |-> s]) :
     t \in TitleValues,
     d \in {Undef, Str("D"), Num(1)},
     f \in {Undef, Num(5), Arr(<<>>), Arr(<<FieldWith(<<>>)>>),
            Arr(<<FieldWith([type |-> Str("section"), label |-> Num(5)])>>)},
     s \in {Undef, Obj([theme |-> Num(1)])}}

\* documents whose defects are in the settings
SettingsDocuments ==
  {JsonObject([title |-> Str("T"), fields |-> f, settings |-> s]) :
     f \in {Num(5), Arr(<<FieldWith(<<>>)>>),
            Arr(<<FieldWith([required |-> Str("yes")])>>)},
     s \in SettingsValues}

Documents == RootDocuments \cup SettingsDocuments

\* JSON values that are not objects
NonObjectValues == {Undef, Null, Num(5), Bool(TRUE), Arr(<<>>)}

\* strings that are not JSON
MalformedStrings == {Str(""), Str("{not json")}

\* the JSON texts handed over in place of a parsed value
JsonTexts ==
  {Text(d) : d \in RootDocuments \cup SettingsDocuments \cup {Null, Num(5)}}
    \cup {Text(Text(JsonObject([title |-> Str("T"),
                                fields |-> Arr(<<FieldWith(<<>>)>>)])))}

\* the values validate and transformJsonToFormSchema are called with, next
\* to the documents FieldDocument builds
Inputs == Documents \cup NonObjectValues \cup MalformedStrings \cup JsonTexts

\* the files importFromFile is called with
Files ==
  {[readable |-> r, content |-> c] :
     r \in BOOLEAN, c \in MalformedStrings \cup JsonTexts}


(***************************************************************************)
(* State: the public operations one call at a time, and the import modal   *)
(***************************************************************************)
VARIABLES
  op,                \* the operation that was called, "idle" between calls
  arg,               \* its argument
  ret,               \* how the call ended and what it returned
  showImportModal,   \* FormsHeader: the `open` prop of the modal
  currentStep,       \* JsonImportModal state
  jsonFile,
  jsonText,
  uploadMode,
  validationResult,
  importResult,
  isProcessing,
  progress,
  pending,           \* files whose importFromFile is awaited by a run of
                     \* handleValidateAndProcess
  readers,           \* files whose FileReader of handleFileUpload is loading
  timers,            \* scheduled calls of handleClose
  lastEvent,         \* the handler that ran last
  createFormCall,    \* the call of formsDb.createForm the last handler made
  heap,              \* the arrays that were created, by their references
  validator,         \* the JsonSchemaValidator instance the callers share
  running,           \* the calls of importFromFile that await
  results            \* the results that were returned, in order

callVars == <<op, arg, ret>>

modalVars ==
  <<showImportModal, currentStep, jsonFile, jsonText, uploadMode,
    validationResult, importResult, isProcessing, progress, pending, readers,
    timers, lastEvent, createFormCall>>

sharedVars == <<heap, validator, running, results>>

vars == <<callVars, modalVars, sharedVars>>

NoCall == [outcome |-> "none"]

\* a state of type File | null or Result | null holds null
IsNull(x) == DOMAIN x = {"t", "v"}

Init ==
  /\ op = "idle"
  /\ arg = Undef
  /\ ret = NoCall
  /\ showImportModal = FALSE
  /\ currentStep = "upload"
  /\ jsonFile = Null
  /\ jsonText = Str("")
  /\ uploadMode = "file"
  /\ validationResult = Null
  /\ importResult = Null
  /\ isProcessing = FALSE
  /\ progress = 0
  /\ pending = {}
  /\ readers = {}
  /\ timers = 0
  /\ lastEvent = "none"
  /\ createFormCall = NoCall
  /\ heap = <<<<>>, <<>>>>
  /\ validator = [errors |-> 1, warnings |-> 2]
  /\ running = {}
  /\ results = <<>>

\* validator.validate(jsonData)
ValidateCall(jsonData) ==
  /\ arg' = jsonData
  /\ ret' = validateRun(jsonData)
  /\ op' = "validate"
  /\ UNCHANGED <<modalVars, sharedVars>>

Validate ==
  /\ op = "idle"
  /\ \/ \E jsonData \in Inputs : ValidateCall(jsonData)
     \/ \E n \in 1..MaxFields : \E pos \in 1..n : \E f \in Fields :
          \E sib \in [SiblingPositions(n, pos) -> SiblingFields] :
            ValidateCall(FieldDocument(n, pos, f, sib))

\* jsonImportService.transformJsonToFormSchema(jsonData), to its settlement
TransformCall(jsonData, rnd) ==
  /\ arg' = jsonData
  /\ ret' = transformRun(jsonData, rnd)
  /\ op' = "transformJsonToFormSchema"
  /\ UNCHANGED <<modalVars, sharedVars>>

TransformJsonToFormSchema ==
  /\ op = "idle"
  /\ \/ \E jsonData \in Inputs, rnd \in RandomSuffixes :
          TransformCall(jsonData, rnd)
     \/ \E n \in 1..MaxFields : \E pos \in 1..n : \E f \in Fields :
          \E sib \in [SiblingPositions(n, pos) -> SiblingFields] :
            \E rnd \in RandomSuffixes :
              TransformCall(FieldDocument(n, pos, f, sib), rnd)

\* jsonImportService.importFromFile(file), to its settlement
ImportFromFile ==
  /\ op = "idle"
  /\ \E file \in Files, rnd \in RandomSuffixes :
       /\ arg' = file
       /\ ret' = importFromFileRun(file, rnd)
  /\ op' = "importFromFile"
  /\ UNCHANGED <<modalVars, sharedVars>>

\* the caller takes the result
Return ==
  /\ op # "idle"
  /\ op' = "idle"
  /\ arg' = Undef
  /\ ret' = NoCall
  /\ UNCHANGED <<modalVars, sharedVars>>

Next == Validate \/ TransformJsonToFormSchema \/ ImportFromFile \/ Return

Spec == Init /\ [][Next]_vars

(***************************************************************************)
(* JsonImportModal and the FormsHeader that opens it                       *)
(***************************************************************************)
\* no more than MaxPending runs of handleValidateAndProcess await a file
MaxPending == 1

\* no more than MaxReaders FileReaders of handleFileUpload are loading
MaxReaders == 1

\* no more than MaxTimers calls of handleClose are scheduled
MaxTimers == 1

ValidDocument ==
  JsonObject([title |-> Str("T"), fields |-> Arr(<<FieldWith(<<>>)>>)])

\* fails validation, with a warning
InvalidDocument ==
  JsonObject([title |-> Str(""),
              fields |-> Arr(<<FieldWith([type |-> Str("section"),
                                          label |-> Str("")])>>)])

\* passes validation and makes transformOptions throw
UnmappableDocument ==
  JsonObject([title |-> Str("T"),
              fields |-> Arr(<<FieldWith([options |-> Arr(<<Null>>)])>>)])

\* what the user can have in the text area
ModalTexts ==
  {Str(""), Str("{not json"), Text(ValidDocument), Text(InvalidDocument),
   Text(UnmappableDocument)}

\* the files the user can pick: json tells whether the type is
\* application/json or the name ends with .json
ModalFiles ==
  {[json |-> TRUE, readable |-> TRUE, content |-> Text(ValidDocument)],
   [json |-> TRUE, readable |-> TRUE, content |-> Text(InvalidDocument)],
   [json |-> TRUE, readable |-> TRUE, content |-> Str("{not json")],
   [json |-> TRUE, readable |-> FALSE, content |-> Str("")],
   [json |-> FALSE, readable |-> TRUE, content |-> Text(ValidDocument)]}

resetModal ==
  /\ currentStep' = "upload"
  /\ jsonFile' = Null
  /\ jsonText' = Str("")
  /\ validationResult' = Null
  /\ importResult' = Null
  /\ isProcessing' = FALSE
  /\ progress' = 0

\* FormsHeader: the 'Import from JSON' button
OpenModal ==
  /\ ~showImportModal
  /\ showImportModal' = TRUE
  /\ lastEvent' = "open"
  /\ createFormCall' = NoCall
  /\ UNCHANGED <<callVars, sharedVars,
                 currentStep, jsonFile, jsonText, uploadMode,
                 validationResult, importResult, isProcessing, progress,
                 pending, readers, timers>>

\* Cancel, or the dialog asking to close
handleClose ==
  /\ showImportModal
  /\ resetModal
  /\ showImportModal' = FALSE
  /\ lastEvent' = "close"
  /\ createFormCall' = NoCall
  /\ UNCHANGED <<callVars, sharedVars, uploadMode, pending, readers, timers>>

\* the two buttons of the upload step
SetUploadMode ==
  /\ showImportModal
  /\ currentStep = "upload"
  /\ \E mode \in {"file", "text"} :
       /\ mode # uploadMode
       /\ uploadMode' = mode
  /\ lastEvent' = "mode"
  /\ createFormCall' = NoCall
  /\ UNCHANGED <<callVars, sharedVars,
                 showImportModal, currentStep, jsonFile, jsonText,
                 validationResult, importResult, isProcessing, progress,
                 pending, readers, timers>>

\* the onChange of the text area
SetJsonText ==
  /\ showImportModal
  /\ currentStep = "upload"
  /\ uploadMode = "text"
  /\ \E text \in ModalTexts :
       /\ text # jsonText
       /\ jsonText' = text
  /\ lastEvent' = "text"
  /\ createFormCall' = NoCall
  /\ UNCHANGED <<callVars, sharedVars,
                 showImportModal, currentStep, jsonFile, uploadMode,
                 validationResult, importResult, isProcessing, progress,
                 pending, readers, timers>>

\* the onChange of the file input
handleFileUpload ==
  /\ showImportModal
  /\ currentStep = "upload"
  /\ uploadMode = "file"
  /\ \E file \in ModalFiles :
       IF file.json
       THEN /\ jsonFile' = file
            /\ IF file.readable
               THEN /\ Cardinality(readers \cup {file}) <= MaxReaders
                    /\ readers' = readers \cup {file}
               ELSE readers' = readers
       ELSE UNCHANGED <<jsonFile, readers>>
  /\ lastEvent' = "file"
  /\ createFormCall' = NoCall
  /\ UNCHANGED <<callVars, sharedVars,
                 showImportModal, currentStep, jsonText, uploadMode,
                 validationResult, importResult, isProcessing, progress,
                 pending, timers>>

\* reader.onload of handleFileUpload
FileReaderOnload ==
  /\ \E file \in readers :
       /\ readers' = readers \ {file}
       /\ jsonText' = IF Truthy(file.content) THEN file.content ELSE jsonText
  /\ lastEvent' = "onload"
  /\ createFormCall' = NoCall
  /\ UNCHANGED <<callVars, sharedVars,
                 showImportModal, currentStep, jsonFile, uploadMode,
                 validationResult, importResult, isProcessing, progress,
                 pending, timers>>

canProceedFromUpload ==
  ~IsNull(jsonFile) \/ (IsString(jsonText) /\ ~TrimIsEmpty(jsonText))

\* handleValidateAndProcess from the result on
ShowResult(result) ==
  /\ importResult' = result
  /\ validationResult' =
       IF "validationResult" \in DOMAIN result THEN result.validationResult
       ELSE Null
  /\ currentStep' = IF result.success THEN "preview" ELSE "validate"
  /\ progress' = 100
  /\ isProcessing' = FALSE

\* the catch and finally blocks of handleValidateAndProcess
ShowFailure(thrown) ==
  /\ importResult' = [success |-> FALSE,
                      errors |-> <<"Failed to process JSON: "
                                     \o ErrorMessage(thrown)>>,
                      warnings |-> <<>>]
  /\ currentStep' = "validate"
  /\ isProcessing' = FALSE
  /\ UNCHANGED validationResult

\* the 'Validate & Process' button: handleValidateAndProcess, to its end
\* when it takes the text and to the await of importFromFile otherwise
handleValidateAndProcess ==
  /\ showImportModal
  /\ currentStep = "upload"
  /\ canProceedFromUpload
  /\ ~isProcessing
  /\ IF ~IsNull(jsonFile)
     THEN /\ Cardinality(pending \cup {jsonFile}) <= MaxPending
          /\ pending' = pending \cup {jsonFile}
          /\ isProcessing' = TRUE
          /\ progress' = 25
          /\ lastEvent' = "processing"
          /\ UNCHANGED <<currentStep, validationResult, importResult>>
     ELSE /\ IF ~ParseOk(jsonText)
             THEN ShowFailure(SyntaxError) /\ progress' = 25
             ELSE \E rnd \in RandomSuffixes :
                    LET run == transformRun(JSONParse(jsonText), rnd) IN
                    IF run.outcome = "resolved"
                    THEN ShowResult(run.result)
                    ELSE ShowFailure(run.error) /\ progress' = 25
          /\ lastEvent' = "processed"
          /\ UNCHANGED pending
  /\ createFormCall' = NoCall
  /\ UNCHANGED <<callVars, sharedVars,
                 showImportModal, jsonFile, jsonText, uploadMode,
                 readers, timers>>

\* handleValidateAndProcess from the settlement of importFromFile on
ImportSettles ==
  /\ \E file \in pending, rnd \in RandomSuffixes :
       LET run == importFromFileRun(file, rnd) IN
       /\ pending' = pending \ {file}
       /\ IF run.outcome = "resolved"
          THEN ShowResult(run.result)
          ELSE ShowFailure(run.error) /\ UNCHANGED progress
  /\ lastEvent' = "processed"
  /\ createFormCall' = NoCall
  /\ UNCHANGED <<callVars, sharedVars,
                 showImportModal, jsonFile, jsonText, uploadMode,
                 readers, timers>>

canProceedFromValidation == ~IsNull(importResult) /\ importResult.success

\* 'Back to Upload' of the validate step and 'Back' of the preview step
BackToUpload ==
  /\ showImportModal
  /\ \/ currentStep = "validate" /\ ~canProceedFromValidation
     \/ currentStep = "preview"
  /\ currentStep' = "upload"
  /\ lastEvent' = "back"
  /\ createFormCall' = NoCall
  /\ UNCHANGED <<callVars, sharedVars,
                 showImportModal, jsonFile, jsonText, uploadMode,
                 validationResult, importResult, isProcessing, progress,
                 pending, readers, timers>>

\* the users that sign in
Users == {[id |-> Str("u1")]}

\* handleImportFromJson that takes the id of a user who may be absent
handleImportFromJsonAnyUser(u, result) ==
  IF ~(result.success /\ "formSchema" \in DOMAIN result)
  THEN NoCall
  ELSE [outcome |-> "called",
        userId |-> IF IsNull(u) THEN Undef ELSE u.id,
        title |-> Get(Get(result.formSchema, "settings"), "title"),
        formSchema |-> result.formSchema]

\* handleImportFromJson of useFormsManagement with the user u, up to its
\* await: the call of formsDb.createForm it makes, or NoCall
handleImportFromJson(u, result) ==
  IF ~(~IsNull(u) /\ result.success /\ "formSchema" \in DOMAIN result)
  THEN NoCall
  ELSE [outcome |-> "called",
        userId |-> u.id,
        title |-> Get(Get(result.formSchema, "settings"), "title"),
        formSchema |-> result.formSchema]

\* the 'Import Form' button; onImportSuccess is handleImportSuccess of
\* FormsHeader, which hides the modal and hands the result to
\* handleImportFromJson; u is the user useAuth gave, null when nobody is
\* signed in
handleConfirmImport ==
  /\ showImportModal
  /\ currentStep = "preview"
  /\ IF ~IsNull(importResult) /\ importResult.success
        /\ "formSchema" \in DOMAIN importResult
     THEN /\ timers < MaxTimers
          /\ showImportModal' = FALSE
          /\ \E u \in Users \cup {Null} :
               createFormCall' = handleImportFromJson(u, importResult)
          /\ currentStep' = "complete"
          /\ timers' = timers + 1
     ELSE /\ createFormCall' = NoCall
          /\ UNCHANGED <<showImportModal, currentStep, timers>>
  /\ lastEvent' = "confirm"
  /\ UNCHANGED <<callVars, sharedVars,
                 jsonFile, jsonText, uploadMode, validationResult,
                 importResult, isProcessing, progress, pending, readers>>

\* the setTimeout callback of handleConfirmImport, after two seconds
CloseTimerFires ==
  /\ timers > 0
  /\ timers' = timers - 1
  /\ resetModal
  /\ showImportModal' = FALSE
  /\ lastEvent' = "timer"
  /\ createFormCall' = NoCall
  /\ UNCHANGED <<callVars, sharedVars, uploadMode, pending, readers>>

NextModal ==
  \/ OpenModal
  \/ handleClose
  \/ SetUploadMode
  \/ SetJsonText
  \/ handleFileUpload
  \/ FileReaderOnload
  \/ handleValidateAndProcess
  \/ ImportSettles
  \/ BackToUpload
  \/ handleConfirmImport
  \/ CloseTimerFires

SpecModal == Init /\ [][NextModal]_vars

(***************************************************************************)
(* One JsonSchemaValidator instance under repeated calls, and the          *)
(* jsonImportService singleton under calls of importFromFile that overlap  *)
(***************************************************************************)
\* no more than MaxCalls calls are made
MaxCalls == 2

\* `new JsonSchemaValidator()`: the initialisers of errors and warnings
\* create two arrays
newJsonSchemaValidator(h) ==
  [heap |-> h \o <<<<>>, <<>>>>,
   validator |-> [errors |-> Len(h) + 1, warnings |-> Len(h) + 2]]

\* resetLists that empties the arrays the instance holds
resetListsInPlace(h, v) ==
  [heap |-> [h EXCEPT ![v.errors] = <<>>, ![v.warnings] = <<>>],
   validator |-> v]

\* `this.errors = []; this.warnings = [];` at the start of validate: the
\* instance v gets two new arrays
resetLists(h, v) ==
  [heap |-> h \o <<<<>>, <<>>>>,
   validator |-> [errors |-> Len(h) + 1, warnings |-> Len(h) + 2]]

\* the rest of validate on the instance m.validator: addError and addWarning
\* push onto the arrays the instance holds, and the ValidationResult that is
\* returned holds these arrays themselves
storeLists(m, threw, returned) ==
  LET errors == m.heap[m.validator.errors] \o returned.errors
      warnings == m.heap[m.validator.warnings] \o returned.warnings
  IN [heap |-> [m.heap EXCEPT ![m.validator.errors] = errors,
                              ![m.validator.warnings] = warnings],
      validator |-> m.validator,
      result |-> [isValid |-> ~threw /\ Len(errors) = 0,
                  errors |-> m.validator.errors,
                  warnings |-> m.validator.warnings,
                  fixableErrors |-> IF threw THEN <<>>
                                    ELSE FilterFixable(errors)]]

validateOnTry(m, try) == storeLists(m, try.st.threw, validateReturn(try).result)

\* v.validate(jsonData) with the arrays of h
validateOn(h, v, jsonData) ==
  validateOnTry(resetLists(h, v), validateTry(jsonData))

validateOnNew(m, jsonData) == validateOn(m.heap, m.validator, jsonData)

\* validateJsonSchema(jsonData) with the arrays of h
validateJsonSchemaOn(h, jsonData) ==
  validateOnNew(newJsonSchemaValidator(h), jsonData)

\* the ValidationResult with the content its arrays have in h
Lists(h, result) ==
  [result EXCEPT !.errors = h[result.errors], !.warnings = h[result.warnings]]

\* the ImportTransformResult whose validationResult is the object
\* validationResult itself
WithValidationResult(result, validated) ==
  IF "validationResult" \in DOMAIN result
  THEN [result EXCEPT !.validationResult = validated]
  ELSE result

\* the values the shared instance validates
SharedInputs ==
  {JsonObject([title |-> t, fields |-> Arr(<<FieldWith(f)>>)]) :
     t \in {Undef, Str("T")},
     f \in {<<>>, [type |-> Str("section"), label |-> Str("")],
            [type |-> Str("section"), label |-> Num(5)]}}
    \cup {Str("{not json")}

\* the files that are imported
SharedFiles ==
  {[readable |-> r, content |-> c] :
     r \in BOOLEAN,
     c \in {Text(d) : d \in SharedInputs \ {Str("{not json")}}
             \cup {Str("{not json")}}

Calls == Len(results) + Cardinality(running)

Returned(call, input, rnd, value) ==
  results' = Append(results, [call |-> call, input |-> input, rnd |-> rnd,
                              value |-> value])

\* validate returns on the shared instance
InstanceValidated(jsonData, m) ==
  /\ heap' = m.heap
  /\ validator' = m.validator
  /\ Returned("validate", jsonData, "none", m.result)

\* validator.validate(jsonData) on the shared instance: the call has no
\* await and runs to its return
InstanceValidate ==
  /\ Calls < MaxCalls
  /\ \E jsonData \in SharedInputs :
       InstanceValidated(jsonData, validateOn(heap, validator, jsonData))
  /\ UNCHANGED <<callVars, modalVars, running>>

\* jsonImportService.importFromFile(file) up to `await
\* this.readFileAsText(file)`
ImportFromFileStart ==
  /\ Calls < MaxCalls
  /\ \E file \in SharedFiles, rnd \in RandomSuffixes :
       running' = running \cup {[call |-> Calls + 1, file |-> file,
                                 rnd |-> rnd, stage |-> "reading",
                                 jsonData |-> Undef,
                                 validationResult |-> Undef,
                                 formSchema |-> Undef]}
  /\ UNCHANGED <<callVars, modalVars, heap, validator, results>>

\* transformJsonToFormSchema(jsonData) from its start to its first return
\* or to `await this.createFormSchema(importedSchema)`
TransformStarted(c, jsonData, m) ==
  /\ heap' = m.heap
  /\ IF Lists(m.heap, m.result).isValid
     THEN /\ running' = (running \ {c}) \cup
                {[c EXCEPT !.stage = "creating",
                           !.jsonData = jsonData,
                           !.validationResult = m.result,
                           !.formSchema = createFormSchema(jsonData, c.rnd)]}
          /\ UNCHANGED results
     ELSE /\ running' = running \ {c}
          /\ Returned("importFromFile", c.file, c.rnd,
               WithValidationResult(
                 transformSettle(
                   transformValidated(Lists(m.heap, m.result), jsonData,
                                      c.rnd)).result,
                 m.result))

\* importFromFile after readFileAsText settled with `text`
FileRead(c, text) ==
  IF IsThrown(text) \/ ~ParseOk(text)
  THEN /\ running' = running \ {c}
       /\ Returned("importFromFile", c.file, c.rnd,
                   importFromFileRun(c.file, c.rnd).result)
       /\ UNCHANGED heap
  ELSE TransformStarted(c, JSONParse(text),
                        validateJsonSchemaOn(heap, JSONParse(text)))

ImportFromFileRead ==
  /\ \E c \in running :
       /\ c.stage = "reading"
       /\ FileRead(c, readFileAsText(c.file))
  /\ UNCHANGED <<callVars, modalVars, validator>>

\* transformJsonToFormSchema after `await this.createFormSchema(...)`
ImportFromFileCreated ==
  /\ \E c \in running :
       /\ c.stage = "creating"
       /\ running' = running \ {c}
       /\ Returned("importFromFile", c.file, c.rnd,
            WithValidationResult(
              transformSettle(
                transformSucceeded(Lists(heap, c.validationResult),
                                   c.formSchema)).result,
              c.validationResult))
  /\ UNCHANGED <<callVars, modalVars, heap, validator>>

NextShared ==
  \/ InstanceValidate
  \/ ImportFromFileStart
  \/ ImportFromFileRead
  \/ ImportFromFileCreated

SpecShared == Init /\ [][NextShared]_vars

\* the validate step is on screen
ValidateStepShown ==
  showImportModal /\ currentStep = "validate" /\ ~IsNull(validationResult)

\* the items of the 'Import Errors' list on screen
ImportErrorsShown ==
  IF ValidateStepShown /\ ~IsNull(importResult) /\ Len(importResult.errors) > 0
  THEN importResult.errors
  ELSE <<>>

(***************************************************************************)
(* Properties of the operations                                            *)
(***************************************************************************)
\* the value validate walks for the argument x, when there is one
Parsed(x) == IF IsString(x) THEN JSONParse(x) ELSE x

HasDocument(x) == ~IsString(x) \/ ParseOk(x)

\* the diagnostics of the list whose path is `path`
RECURSIVE AtPath(_, _)
AtPath(list, path) ==
  IF Len(list) = 0 THEN <<>>
  ELSE IF Head(list).path = path
  THEN <<Head(list)>> \o AtPath(Tail(list), path)
  ELSE AtPath(Tail(list), path)

StartsWith(s, prefix) ==
  Len(s) >= Len(prefix) /\ SubSeq(s, 1, Len(prefix)) = prefix

\* the diagnostics of the list under the path prefix fields[index], with
\* the prefix taken off their paths
RECURSIVE UnderField(_, _)
UnderField(list, index) ==
  LET prefix == "fields[" \o ToString(index) \o "]" IN
  IF Len(list) = 0 THEN <<>>
  ELSE IF StartsWith(Head(list).path, prefix)
  THEN <<[Head(list) EXCEPT
            !.path = SubSeq(@, Len(prefix) + 1, Len(@))]>>
         \o UnderField(Tail(list), index)
  ELSE UnderField(Tail(list), index)

\* C1: in every ValidationResult returned by validate, isValid is true
\* exactly when the errors list is empty, whatever the warnings are.
C1_IsValidIffNoErrors ==
  op = "validate" =>
    (ret.result.isValid <=> Len(ret.result.errors) = 0)

C1_Witness ==
  /\ op = "validate"
  /\ ~ret.result.isValid
  /\ Len(ret.result.errors) = 1
  /\ Len(ret.result.warnings) > 0

\* C2: every ImportTransformResult of transformJsonToFormSchema and of
\* importFromFile has success = true exactly when it has a formSchema and no
\* errors; a failed result has at least one error and no formSchema.
C2_SuccessIffSchemaAndNoErrors ==
  op \in {"transformJsonToFormSchema", "importFromFile"} =>
    /\ ret.result.success <=>
         ("formSchema" \in DOMAIN ret.result /\ Len(ret.result.errors) = 0)
    /\ ~ret.result.success =>
         (Len(ret.result.errors) >= 1 /\ "formSchema" \notin DOMAIN ret.result)

C2_Witness ==
  /\ op = "importFromFile"
  /\ ret.result.success
  /\ "formSchema" \in DOMAIN ret.result
  /\ Len(Get(ret.result.formSchema, "fields").v) > 0

\* C3: whatever the input, validate returns a ValidationResult, and the
\* promises of transformJsonToFormSchema and importFromFile resolve to an
\* ImportTransformResult; no call throws or rejects.
C3_NeverThrows ==
  /\ op = "validate" =>
       /\ ret.outcome = "returned"
       /\ DOMAIN ret.result = {"isValid", "errors", "warnings", "fixableErrors"}
  /\ op \in {"transformJsonToFormSchema", "importFromFile"} =>
       /\ ret.outcome = "resolved"
       /\ {"success", "errors", "warnings"} \subseteq DOMAIN ret.result

\* a mapping step failed on an input that passed validation
C3_Witness ==
  /\ op = "transformJsonToFormSchema"
  /\ ret.outcome = "resolved"
  /\ ret.created = 1
  /\ ~ret.result.success

\* C4: for a string that does not parse as JSON, validate reports
\* isValid = false, exactly one error, at path "root", no warning and no
\* fixable error, and runs no structural check.
C4_MalformedString ==
  (op = "validate" /\ IsString(arg) /\ ~ParseOk(arg)) =>
    /\ ~ret.result.isValid
    /\ Len(ret.result.errors) = 1
    /\ ret.result.errors[1].path = "root"
    /\ ret.result.warnings = <<>>
    /\ ret.result.fixableErrors = <<>>
    /\ ~ret.walked

C4_Witness ==
  /\ op = "validate"
  /\ arg = Str("{not json")
  /\ Len(ret.result.errors) = 1

\* the errors of the list whose message holds an allowlisted substring
RECURSIVE AllowlistedErrors(_)
AllowlistedErrors(errors) ==
  IF Len(errors) = 0 THEN <<>>
  ELSE IF \/ Includes(Head(errors).message, "Field required must be a boolean")
          \/ Includes(Head(errors).message, "Theme must be a string")
          \/ Includes(Head(errors).message, "Language must be a string")
          \/ Includes(Head(errors).message, "Success message must be a string")
  THEN <<Head(errors)>> \o AllowlistedErrors(Tail(errors))
  ELSE AllowlistedErrors(Tail(errors))

\* C5: in every ValidationResult returned by validate, fixableErrors is
\* exactly the sub-list of the errors whose message holds an allowlisted
\* substring.
C5_FixableIsAllowlistedSublist ==
  op = "validate" =>
    ret.result.fixableErrors = AllowlistedErrors(ret.result.errors)

\* C6: when the input fails validation, transformJsonToFormSchema never
\* calls createFormSchema and resolves to success = false without
\* formSchema, with the validationResult, and with one "path: message"
\* string per validation error and per warning, in the same order.
C6_InvalidStopsBeforeTransform ==
  (op = "transformJsonToFormSchema" /\ ~validate(arg).isValid) =>
    LET v == validate(arg)
        r == ret.result
    IN /\ ret.created = 0
       /\ ~r.success
       /\ "formSchema" \notin DOMAIN r
       /\ "validationResult" \in DOMAIN r
       /\ r.validationResult = v
       /\ Len(r.errors) = Len(v.errors)
       /\ \A i \in 1..Len(v.errors) :
            r.errors[i] = v.errors[i].path \o ": " \o v.errors[i].message
       /\ Len(r.warnings) = Len(v.warnings)
       /\ \A i \in 1..Len(v.warnings) :
            r.warnings[i] = v.warnings[i].path \o ": " \o v.warnings[i].message

C6_Witness ==
  /\ op = "transformJsonToFormSchema"
  /\ ~validate(arg).isValid
  /\ Len(ret.result.errors) > 1
  /\ Len(ret.result.warnings) > 0
  /\ ret.created = 0

\* C7: after a run of handleValidateAndProcess that ends with a failed
\* result, the open modal is at the 'validate' step and the errors of that
\* result are on screen, whether or not the result has a validationResult.
C7_FailedResultShown ==
  (lastEvent = "processed" /\ showImportModal
     /\ ~IsNull(importResult) /\ ~importResult.success) =>
    /\ currentStep = "validate"
    /\ ImportErrorsShown = importResult.errors

TitleDefect(data) ==
  LET title == Get(data, "title") IN
  IsUndefined(title) \/ ~IsString(title) \/ TrimIsEmpty(title)

FieldsDefect(data) ==
  LET fields == Get(data, "fields") IN
  ~IsArray(fields) \/ Len(fields.v) = 0

\* C8: for every input, a title that is missing, blank or not a string gives
\* isValid = false and an error at path title, and fields that are missing,
\* not an array or empty give isValid = false and an error at path fields,
\* both in the result of the same call.
C8_TitleAndFieldsErrors ==
  (op = "validate" /\ HasDocument(arg)) =>
    LET data == Parsed(arg) IN
    /\ TitleDefect(data) =>
         (~ret.result.isValid /\ Len(AtPath(ret.result.errors, "title")) >= 1)
    /\ FieldsDefect(data) =>
         (~ret.result.isValid /\ Len(AtPath(ret.result.errors, "fields")) >= 1)

\* the supported-type table has the key `type`
IsTableKey(type) == type.t = "string" /\ type.v \in DOMAIN SUPPORTED_FIELD_TYPES

EnumeratesSupportedTypes(message) ==
  \A k \in 1..Len(SupportedKeys) : Includes(message, SupportedKeys[k])

\* the fields of the document that are objects, by 0-based position
ObjectFieldPositions(data) ==
  IF IsArray(Get(data, "fields"))
  THEN {i \in 0..(Len(Get(data, "fields").v) - 1) :
          Get(data, "fields").v[i + 1].t = "object"}
  ELSE {}

\* C9: every field whose type is not a key of the supported-type
\* table, whatever its value, gets exactly one error at fields[i].type, and
\* the message of that error enumerates every supported import type.
C9_TypeErrorEnumerates ==
  (op = "validate" /\ HasDocument(arg)) =>
    \A i \in ObjectFieldPositions(Parsed(arg)) :
      LET field == Get(Parsed(arg), "fields").v[i + 1]
          errs == AtPath(ret.result.errors, "fields[" \o ToString(i) \o "].type")
      IN ~IsTableKey(Get(field, "type")) =>
           (Len(errs) = 1 /\ EnumeratesSupportedTypes(errs[1].message))

\* the diagnostics validate reports for a document that holds only `field`
AloneDiagnostics(field) ==
  LET r == validate(JsonObject([title |-> Str("T"), fields |-> Arr(<<field>>)]))
  IN [errors |-> UnderField(r.errors, 0), warnings |-> UnderField(r.warnings, 0)]

\* C10: the errors and warnings reported under fields[i] depend only on the
\* content of fields[i]: they are those the field gets in a document of its
\* own, whatever its siblings are.
C10_SiblingIndependence ==
  (op = "validate" /\ HasDocument(arg) /\ IsArray(Get(Parsed(arg), "fields"))) =>
    \A i \in 0..(Len(Get(Parsed(arg), "fields").v) - 1) :
      LET alone == AloneDiagnostics(Get(Parsed(arg), "fields").v[i + 1]) IN
      /\ UnderField(ret.result.errors, i) = alone.errors
      /\ UnderField(ret.result.warnings, i) = alone.warnings

\* the label is missing or blank
BlankLabel(label) ==
  IsUndefined(label) \/ (IsString(label) /\ TrimIsEmpty(label))

\* C11: a section or statement whose label is missing or blank gets a
\* warning at fields[i].label and no error at fields[i].label.
C11_BlankSectionLabelWarns ==
  (op = "validate" /\ HasDocument(arg)) =>
    \A i \in ObjectFieldPositions(Parsed(arg)) :
      LET field == Get(Parsed(arg), "fields").v[i + 1]
          path == "fields[" \o ToString(i) \o "].label"
      IN (Get(field, "type").t = "string"
            /\ Get(field, "type").v \in {"section", "statement"}
            /\ BlankLabel(Get(field, "label"))) =>
           /\ Len(AtPath(ret.result.warnings, path)) >= 1
           /\ Len(AtPath(ret.result.errors, path)) = 0

\* the diagnostics of the list with the message `message`
RECURSIVE WithMessage(_, _)
WithMessage(list, message) ==
  IF Len(list) = 0 THEN <<>>
  ELSE IF Head(list).message = message
  THEN <<Head(list)>> \o WithMessage(Tail(list), message)
  ELSE WithMessage(Tail(list), message)

\* min >= max, on numbers and on the other values a document can hold
MinNotBelowMax(min, max) ==
  IF min.t = "number" /\ max.t = "number" THEN min.v >= max.v
  ELSE JsGreaterEq(min, max)

\* C12: a number or slider field that has both min and max gets the error
\* 'min value must be less than max value' at fields[i].min exactly when
\* min >= max.
C12_MinBelowMax ==
  (op = "validate" /\ HasDocument(arg)) =>
    \A i \in ObjectFieldPositions(Parsed(arg)) :
      LET field == Get(Parsed(arg), "fields").v[i + 1]
          min == Get(field, "min")
          max == Get(field, "max")
          errs == WithMessage(
                    AtPath(ret.result.errors,
                           "fields[" \o ToString(i) \o "].min"),
                    "min value must be less than max value")
      IN (Get(field, "type").t = "string"
            /\ Get(field, "type").v \in {"number", "slider"}
            /\ ~IsUndefined(min) /\ ~IsUndefined(max)) =>
           (Len(errs) >= 1 <=> MinNotBelowMax(min, max))

\* options is missing, not an array or an empty array
OptionsDefect(options) ==
  ~IsArray(options) \/ Len(options.v) = 0

\* C13: a field of a type that requires options whose options is missing,
\* not an array or empty gets an error at fields[i].options, and a field of
\* any other type never gets one.
C13_OptionsRequired ==
  (op = "validate" /\ HasDocument(arg)) =>
    \A i \in ObjectFieldPositions(Parsed(arg)) :
      LET field == Get(Parsed(arg), "fields").v[i + 1]
          type == Get(field, "type")
          errs == AtPath(ret.result.errors,
                         "fields[" \o ToString(i) \o "].options")
      IN IF type.t = "string"
              /\ type.v \in {"radio", "select", "checkbox", "checkboxes",
                             "multi_select"}
         THEN OptionsDefect(Get(field, "options")) => Len(errs) >= 1
         ELSE Len(errs) = 0

\* the document a call of transformJsonToFormSchema or importFromFile
\* transforms
ImportedSchema ==
  IF op = "importFromFile" THEN JSONParse(arg.content) ELSE arg

\* the call in `ret` ended with success = true
Succeeded ==
  /\ op \in {"transformJsonToFormSchema", "importFromFile"}
  /\ ret.result.success

\* the internal name the supported-type table gives an import name
InternalName(name) ==
  CASE name \in {"text", "short_text"} -> "text"
    [] name \in {"textarea", "long_text"} -> "textarea"
    [] name \in {"checkbox", "checkboxes"} -> "checkbox"
    [] name \in {"select", "multi_select"} -> "select"
    [] name \in {"section", "statement"} -> "statement"
    [] OTHER -> name

InternalNames == {InternalName(SupportedKeys[k]) : k \in 1..Len(SupportedKeys)}

\* C14: in every formSchema returned with success = true, field k has the
\* internal type the supported-type table gives the type of imported field
\* k, and no field has a type outside the internal names of the table.
C14_TypesMapped ==
  Succeeded =>
    LET imported == Get(ImportedSchema, "fields").v
        fields == Get(ret.result.formSchema, "fields").v
    IN \A k \in 1..Len(fields) :
         LET type == Get(fields[k], "type") IN
         /\ type.t = "string"
         /\ type.v \in InternalNames
         /\ k <= Len(imported)
         /\ Get(imported[k], "type").t = "string"
         /\ type.v = InternalName(Get(imported[k], "type").v)

\* C15: every formSchema returned with success = true has exactly one
\* block; blocks[0].fields and fields are the same sequence, as long as the
\* imported fields, whose k-th element is the transform of the k-th imported
\* field; the block settings are fixed and logic is the default schema's.
C15_OneBlockOfAllFields ==
  Succeeded =>
    LET imported == Get(ImportedSchema, "fields").v
        schema == ret.result.formSchema
        blocks == Get(schema, "blocks").v
        fields == Get(schema, "fields").v
    IN /\ Len(blocks) = 1
       /\ Get(blocks[1], "fields") = Get(schema, "fields")
       /\ Len(fields) = Len(imported)
       /\ \A k \in 1..Len(imported) :
            /\ Get(fields[k], "id") = Get(imported[k], "id")
            /\ Get(fields[k], "label") = Get(imported[k], "label")
            /\ \E rnd \in RandomSuffixes :
                 fields[k] = transformField(imported[k], rnd)
       /\ Get(blocks[1], "settings")
            = Obj([showStepNumber |-> Bool(FALSE), layout |-> Str("single"),
                   spacing |-> Str("normal")])
       /\ Get(schema, "logic")
            = Get(createDefaultFormSchema(
                    Obj([title |-> Get(ImportedSchema, "title"),
                         description |-> Str(""),
                         multiStep |-> Bool(FALSE)])), "logic")

\* two fields that differ came out in their order
C15_Witness ==
  /\ Succeeded
  /\ Len(Get(ret.result.formSchema, "fields").v) = 2
  /\ Get(ret.result.formSchema, "fields").v[1]
       # Get(ret.result.formSchema, "fields").v[2]

\* the block without its generated id
WithoutId(block) == Obj([k \in DOMAIN block.v \ {"id"} |-> block.v[k]])

\* the formSchema without the generated ids of its blocks
WithoutBlockIds(schema) ==
  LET blocks == Get(schema, "blocks").v IN
  SetKey(schema, "blocks",
         Arr([k \in 1..Len(blocks) |-> WithoutId(blocks[k])]))

Content(r) ==
  IF r.call = "validate" THEN Lists(heap, r.value)
  ELSE IF "validationResult" \in DOMAIN r.value
  THEN [r.value EXCEPT !.validationResult = Lists(heap, @)]
  ELSE r.value

\* what the call of r returns when no other call is made
Alone(r) ==
  IF r.call = "validate" THEN validate(r.input)
  ELSE importFromFile(r.input, r.rnd)

\* C17: at every moment after a call of validate on the shared instance or
\* of importFromFile on the shared service returned, whatever calls came
\* before, overlapped with it or came later, the lists of its result hold
\* what the call returns for its input when it is the only call.
C17_ResultsOfOwnInput ==
  \A k \in 1..Len(results) : Content(results[k]) = Alone(results[k])

\* two calls on different inputs returned, with different lists
C17_Witness ==
  /\ Len(results) = 2
  /\ results[1].call = "validate"
  /\ results[2].call = "validate"
  /\ Len(Content(results[1]).errors) > 0
  /\ Content(results[1]).errors # Content(results[2]).errors

\* C18: a handler calls formsDb.createForm only when it is the 'Import Form'
\* button of the preview step of the open modal, the result on screen has
\* success = true and a formSchema; the call is made with the id of a
\* signed-in user and with the formSchema of that result.
C18_CreateOnlyConfirmedSuccess ==
  [][createFormCall' # NoCall =>
       /\ showImportModal
       /\ currentStep = "preview"
       /\ lastEvent' = "confirm"
       /\ ~IsNull(importResult)
       /\ importResult.success
       /\ "formSchema" \in DOMAIN importResult
       /\ createFormCall'.formSchema = importResult.formSchema
       /\ \E u \in Users : createFormCall'.userId = u.id]_vars

\* the user confirmed a successful result and createForm was called
C18_Witness ==
  /\ createFormCall # NoCall
  /\ lastEvent = "confirm"
  /\ currentStep = "complete"

\* the errors validateSettings records for the settings of the document
SettingsDefects(data) == validateFormSettings(NewValidator, data).errors

\* the errors of the list whose path starts with the prefix
RECURSIVE UnderPath(_, _)
UnderPath(list, prefix) ==
  IF Len(list) = 0 THEN <<>>
  ELSE IF StartsWith(Head(list).path, prefix)
  THEN <<Head(list)>> \o UnderPath(Tail(list), prefix)
  ELSE UnderPath(Tail(list), prefix)

\* C19: for a document whose fields value is not an array, validate records
\* exactly one error at path fields and no error under a path fields[i],
\* and the errors it records under settings are those of every defect of
\* the settings.
C19_NonArrayFieldsKeepsSettings ==
  (op = "validate" /\ HasDocument(arg) /\ Parsed(arg).t = "object"
     /\ ~IsArray(Get(Parsed(arg), "fields"))) =>
    /\ Len(AtPath(ret.result.errors, "fields")) = 1
    /\ UnderPath(ret.result.errors, "fields[") = <<>>
    /\ UnderPath(ret.result.errors, "settings")
         = SettingsDefects(Parsed(arg))

\* what the claim gives for one imported option
NormalizedOption(option) ==
  IF IsString(option) THEN option
  ELSE IF option.t = "object" /\ "label" \in DOMAIN option.v
  THEN Get(option, "label")
  ELSE Str("Option")

\* the options of the output field that the claim gives for the imported
\* options, Undef for none
NormalizedOptions(imported) ==
  IF IsUndefined(imported) \/ (IsArray(imported) /\ Len(imported.v) = 0)
  THEN Undef
  ELSE Arr([k \in 1..Len(imported.v) |-> NormalizedOption(imported.v[k])])

\* C20: transformJsonToFormSchema on a document that passes validation
\* succeeds, and every output field has no options when the imported
\* options are absent or empty and otherwise the options of the same
\* length and order, a string as itself, an object with a label as its
\* label and any other element as "Option".
C20_OptionsNeverFail ==
  (op = "transformJsonToFormSchema" /\ arg.t = "object"
     /\ validate(arg).isValid) =>
    /\ ret.result.success
    /\ \A k \in 1..Len(Get(arg, "fields").v) :
         LET imported == Get(Get(arg, "fields").v[k], "options") IN
         (IsUndefined(imported) \/ IsArray(imported)) =>
           Get(Get(ret.result.formSchema, "fields").v[k], "options")
             = NormalizedOptions(imported)

\* the value the claim gives for the key of the output validation: the
\* root-level min or max when there is one, the value of the imported
\* validation object otherwise
DerivedValidation(field, key) ==
  IF key \in {"min", "max"} /\ ~IsUndefined(Get(field, key))
  THEN Get(field, key)
  ELSE Get(Get(field, "validation"), key)

\* C21: in a successful transformation, every output field's validation
\* has minLength, maxLength, min, max and pattern with the value that is
\* present in the imported validation object, 0 and the empty string
\* included, a root-level min or max taking the place of min or max, and it
\* has the default requiredMessage exactly when required is true.
C21_ValidationCopied ==
  (op = "transformJsonToFormSchema" /\ arg.t = "object"
     /\ ret.result.success) =>
    \A k \in 1..Len(Get(arg, "fields").v) :
      LET field == Get(arg, "fields").v[k]
          validation == Get(Get(ret.result.formSchema, "fields").v[k],
                            "validation")
      IN /\ \A key \in {"minLength", "maxLength", "min", "max", "pattern"} :
              ~IsUndefined(DerivedValidation(field, key)) =>
                Get(validation, key) = DerivedValidation(field, key)
         /\ (Get(field, "required") = Bool(TRUE))
              <=> (Get(validation, "requiredMessage")
                     = Str("This field is required"))

\* the k-th imported field of the document that was transformed
ImportedField(k) == Get(arg, "fields").v[k]

\* the k-th field of the formSchema that was returned
OutputField(k) == Get(ret.result.formSchema, "fields").v[k]

\* a document was transformed with success
Transformed ==
  op = "transformJsonToFormSchema" /\ arg.t = "object" /\ ret.result.success

\* the default the claim gives: defaultChecked when it is present,
\* defaultValue otherwise
CheckedFirst(field) ==
  IF ~IsUndefined(Get(field, "defaultChecked"))
  THEN Get(field, "defaultChecked")
  ELSE Get(field, "defaultValue")

\* C22: in a successful transformation, the settings.defaultValue of every
\* output field is the imported defaultChecked when it is present and the
\* imported defaultValue otherwise, whatever the type of the field.
C22_DefaultCheckedWins ==
  Transformed =>
    \A k \in 1..Len(Get(arg, "fields").v) :
      Get(Get(OutputField(k), "settings"), "defaultValue")
        = CheckedFirst(ImportedField(k))

\* C22 as amended: the same, except on a field whose internal type is
\* slider, where the imported defaultValue is taken when it is present and
\* the imported defaultChecked otherwise.
C22_DefaultCheckedWinsButOnSlider ==
  Transformed =>
    \A k \in 1..Len(Get(arg, "fields").v) :
      Get(Get(OutputField(k), "settings"), "defaultValue")
        = IF StrEq(Get(OutputField(k), "type"), "slider")
               /\ ~IsUndefined(Get(ImportedField(k), "defaultValue"))
          THEN Get(ImportedField(k), "defaultValue")
          ELSE CheckedFirst(ImportedField(k))

\* a slider with both defaults was transformed and kept its defaultValue
C22_Witness ==
  /\ Transformed
  /\ \E k \in 1..Len(Get(arg, "fields").v) :
       /\ ~IsUndefined(Get(ImportedField(k), "defaultValue"))
       /\ ~IsUndefined(Get(ImportedField(k), "defaultChecked"))
       /\ StrEq(Get(OutputField(k), "type"), "slider")
       /\ Get(Get(OutputField(k), "settings"), "defaultValue")
            = Get(ImportedField(k), "defaultValue")

\* C23: in a successful transformation, the settings of an output field
\* have allowMultiple, with the value true, exactly when the imported type
\* is the string multi_select.
C23_AllowMultipleOnlyMultiSelect ==
  Transformed =>
    \A k \in 1..Len(Get(arg, "fields").v) :
      LET allowMultiple ==
            Get(Get(OutputField(k), "settings"), "allowMultiple")
      IN IF StrEq(Get(ImportedField(k), "type"), "multi_select")
         THEN allowMultiple = Bool(TRUE)
         ELSE IsUndefined(allowMultiple)

\* a field imported as select was transformed to the internal type select
C23_Witness ==
  /\ Transformed
  /\ \E k \in 1..Len(Get(arg, "fields").v) :
       /\ StrEq(Get(ImportedField(k), "type"), "select")
       /\ StrEq(Get(OutputField(k), "type"), "select")

\* C24: transformJsonToFormSchema on an input for which validate reports
\* isValid = true, a document or a JSON string, returns success = true
\* with a formSchema.
C24_ValidImpliesSuccess ==
  (op = "transformJsonToFormSchema" /\ validate(arg).isValid) =>
    (ret.result.success /\ "formSchema" \in DOMAIN ret.result)

\* C25: in every formSchema returned with success = true, the ids of the
\* fields are pairwise distinct.
C25_FieldIdsDistinct ==
  ((op = "transformJsonToFormSchema" \/ op = "importFromFile")
     /\ ret.result.success) =>
    LET fields == Get(ret.result.formSchema, "fields").v IN
    \A j \in 1..Len(fields) : \A k \in 1..Len(fields) :
      j # k => Get(fields[j], "id") # Get(fields[k], "id")

\* C26: every ValidationResult validate returns with a warning has an
\* error, and so has isValid = false, and no successful result of
\* transformJsonToFormSchema or importFromFile carries a warning.
C26_WarningsImplyErrors ==
  /\ op = "validate" =>
       (Len(ret.result.warnings) > 0 =>
          (Len(ret.result.errors) > 0 /\ ~ret.result.isValid))
  /\ ((op = "transformJsonToFormSchema" \/ op = "importFromFile")
        /\ ret.result.success) =>
       Len(ret.result.warnings) = 0

\* validate returned a warning for a section without a label
C26_Witness ==
  /\ op = "validate"
  /\ Len(ret.result.warnings) > 0
  /\ Len(AtPath(ret.result.errors, "root")) = 0

\* C27: a run of handleValidateAndProcess hands a file to importFromFile
\* only when the upload mode is 'file'; in the mode 'text' it processes the
\* content of the text area.
C27_ProcessesInputOfMode ==
  [][(pending' \ pending # {}) => uploadMode = "file"]_vars

\* the state resetModal leaves
ModalReset ==
  /\ currentStep = "upload"
  /\ IsNull(jsonFile)
  /\ jsonText = Str("")
  /\ IsNull(validationResult)
  /\ IsNull(importResult)
  /\ ~isProcessing

\* C28: while the modal is closed and in the state resetModal left, every
\* step but the user opening it again leaves it in that state: the
\* completion of an import that was started before the close changes
\* neither the step nor the results.
C28_ClosedModalStaysReset ==
  [][(~showImportModal /\ ModalReset /\ lastEvent' # "open")
       => ModalReset']_vars

\* C29: the delayed close of handleConfirmImport never fires on an open
\* modal, which would be a session opened after the confirmed one was
\* closed by the parent, and a modal that is opened is at the step upload.
C29_TimerEndsOwnSession ==
  [][/\ lastEvent' = "timer" => ~showImportModal
     /\ lastEvent' = "open" => currentStep' = "upload"]_vars

\* C30: whenever the open modal is at the step validate, its
\* validationResult is the one of the importResult it shows, and null when
\* that importResult has none.
C30_ValidationResultOfSameAttempt ==
  (showImportModal /\ currentStep = "validate" /\ ~IsNull(importResult)) =>
    validationResult
      = IF "validationResult" \in DOMAIN importResult
        THEN importResult.validationResult
        ELSE Null

====
